---- MODULE Spec2Model ----
(***************************************************************************)
(* Model of survey_condition_validation_option/models/survey_question.py:  *)
(* the SurveyQuestion extension that validates the number of selected      *)
(* choices of a multiple-choice question and the range of a date or        *)
(* datetime answer, with "today" anchors resolved in the user's timezone.  *)
(*                                                                         *)
(* Dates are day numbers, datetimes are seconds (naive UTC, as Odoo stores *)
(* them).  A Python value that may be None/False is a sequence of length   *)
(* 0 (falsy) or 1.  A returned dict is a set of <<key, value>> pairs.  A   *)
(* message is [template, args]: the translated template and the values     *)
(* interpolated into it; a custom validation_error_msg has no args.        *)
(***************************************************************************)
EXTENDS Integers, Sequences, FiniteSets, TLC

VARIABLES
    question,   \* the survey.question record (self)
    user_tz,    \* UTC offset, in seconds, of self.env.user.tz or "UTC"
    time_now,   \* the clock: seconds since the epoch, UTC
    call,       \* the last method called on the record, with its arguments
    result      \* what that call returned, or the exception it raised

vars == <<question, user_tz, time_now, call, result>>

----------------------------------------------------------------------------
\* Bounds of the model.

MaxChoiceOption == 3
MaxSuggested == 5
MaxAnswerLen == 6
MaxQuestionId == 2

\* The lowest configured choice bound explored: -1 is the documented
\* "disabled" value, -2 a negative value that is not.
ChoiceOptions == (-2)..MaxChoiceOption

SecondsPerHour == 3600
SecondsPerDay == 24 * SecondsPerHour

\* Timezones of the acting user: UTC-5, UTC-3:30, UTC, UTC+2, UTC+5:30.
TzOffsets ==
    { -5 * SecondsPerHour, -(3 * SecondsPerHour + 1800), 0,
      2 * SecondsPerHour, 5 * SecondsPerHour + 1800 }

Days == 99..102

\* Day 100 at 22:30 UTC: the local date is day 100 west of UTC+2 and day 101
\* from there on.
NowInstants == { 100 * SecondsPerDay + 22 * SecondsPerHour + 1800 }

----------------------------------------------------------------------------
\* Python values.

None == <<>>
Some(v) == <<v>>
Truthy(x) == x # <<>>
Val(x) == x[1]

\* int(x / 3600) of a float: truncation toward zero.
TruncDiv(a, b) == IF a >= 0 THEN a \div b ELSE -((-a) \div b)

Text(s) == [template |-> s, args |-> <<>>]
Msg(t, a) == [template |-> t, args |-> a]

\* self.validation_error_msg or _(...)
OrMsg(custom, generated) == IF custom # "" THEN Text(custom) ELSE generated

Return(d) == [exc |-> "", ret |-> d]
Raise(e) == [exc |-> e, ret |-> {}]
NoResult == [exc |-> "", ret |-> {}]

----------------------------------------------------------------------------
\* _compute_validation_required

ValidationTypes == {"char_box", "numerical_box", "date", "datetime", "multiple_choice"}

compute_validation_required(q) ==
    IF ~q.validation_required \/ q.question_type \notin ValidationTypes
    THEN [q EXCEPT !.validation_required = FALSE]
    ELSE q

----------------------------------------------------------------------------
\* _validate_choice

\* An answer is a list of suggested-answer ids, or the single id as a string.
IsList(answer) == answer.type = "list"

\* answer_count = len(answer) if isinstance(answer, list) else 1
AnswerCount(answer) == IF IsList(answer) THEN Len(answer.ids) ELSE 1

MinValue(q) ==
    IF q.validation_min_multiple_choice_option = -1
    THEN 0
    ELSE q.validation_min_multiple_choice_option

\* Mutant of MaxValue: the -1 of a disabled maximum is compared as it is.
MaxValueUnresolved(q) == q.validation_max_multiple_choice_option

MaxValue(q) ==
    IF q.validation_max_multiple_choice_option = -1
    THEN Len(q.suggested_answer_ids)
    ELSE q.validation_max_multiple_choice_option

\* Mutant of InRange: the maximum is excluded.
InRangeExclusive(min_value, answer_count, max_value) ==
    min_value <= answer_count /\ answer_count < max_value

\* min_value <= answer_count <= max_value
InRange(min_value, answer_count, max_value) ==
    min_value <= answer_count /\ answer_count <= max_value

ExactTemplate == "You need to select %(min_value)s answer, you chose %(len_answer)s answer."
BetweenTemplate ==
    "You need to select between %(min_value)s and %(max_value)s answers, you chose %(len_answer)s answer."

\* Mutant of ChoiceMessage: the between message whatever the bounds.
ChoiceMessageBetween(q, min_value, max_value, answer_count) ==
    OrMsg(q.validation_error_msg,
          Msg(BetweenTemplate, <<min_value, max_value, answer_count>>))

ChoiceMessage(q, min_value, max_value, answer_count) ==
    IF min_value = max_value
    THEN OrMsg(q.validation_error_msg,
               Msg(ExactTemplate, <<min_value, answer_count>>))
    ELSE OrMsg(q.validation_error_msg,
               Msg(BetweenTemplate, <<min_value, max_value, answer_count>>))

\* res is what super()._validate_choice(answer, comment) returned.
validate_choice(q, answer, res) ==
    IF res # {} \/ q.question_type # "multiple_choice" \/ ~q.validation_required
    THEN Return(res)
    ELSE LET answer_count == AnswerCount(answer)
             min_value == MinValue(q)
             max_value == MaxValue(q)
         IN  IF ~InRange(min_value, answer_count, max_value)
             THEN Return({<<q.id,
                            ChoiceMessage(q, min_value, max_value, answer_count)>>})
             ELSE Return({})

----------------------------------------------------------------------------
\* _validate_date

\* The submitted text: a well-formed date ("%Y-%m-%d", val = its day), a
\* well-formed datetime ("%Y-%m-%d %H:%M:%S", val = its second), or
\* anything else.  fields.Date.from_string and fields.Datetime.from_string
\* raise ValueError on the last; Date.from_string keeps the date part of a
\* datetime text, Datetime.from_string reads a date text as its midnight.
Parses(answer) == answer.fmt # "garbage"

DateFromString(answer) ==
    IF answer.fmt = "date" THEN answer.val ELSE answer.val \div SecondsPerDay

DatetimeFromString(answer) ==
    IF answer.fmt = "datetime" THEN answer.val ELSE answer.val * SecondsPerDay

\* Mutant of NotADate: the custom error message replaces the text.
NotADateCustom(q) ==
    Return({<<q.id, OrMsg(q.validation_error_msg, Text("This is not a date"))>>})

NotADate(q) == Return({<<q.id, Text("This is not a date")>>})

\* time_now = datetime.now(user_timezone); date_now = time_now.date()
DateNow(tz, now) == (now + tz) \div SecondsPerDay

\* diff_hour = int(time_now.utcoffset().total_seconds() / 3600)
DiffHour(tz) == TruncDiv(tz, SecondsPerHour)

\* fields.datetime(year, month, day, hour): ValueError unless hour in 0..23
HourValid(hour) == hour \in 0..23
Datetime(day, hour) == day * SecondsPerDay + hour * SecondsPerHour

\* x.astimezone(user_timezone).strftime(...) of a naive x: the wall clock of
\* the user's timezone (the server's own timezone is UTC).
ToUserTz(x, tz) == x + tz

MinDate(q, is_datetime, date_now, diff_hour) ==
    IF is_datetime
    THEN IF q.validation_min_datetime_option # ""
         THEN IF q.validation_min_datetime_option = "today"
              THEN Some(Datetime(date_now, 0) - diff_hour * SecondsPerHour)
              ELSE None
         ELSE q.validation_min_datetime
    ELSE IF q.validation_min_date_option # ""
         THEN IF q.validation_min_date_option = "today"
              THEN Some(date_now)
              ELSE None
         ELSE q.validation_min_date

\* nb_second_delay as it stands after the bounds are resolved
NbSecondDelay(q, is_datetime) ==
    IF is_datetime /\ q.validation_max_datetime_option = "today" THEN 1 ELSE 0

\* fields.datetime(today.year, today.month, today.day, -diff_hour) raises
MaxDateRaises(q, is_datetime, diff_hour) ==
    /\ is_datetime
    /\ q.validation_max_datetime_option = "today"
    /\ ~HourValid(-diff_hour)

\* Mutant of MaxDate: the date anchor "today" shifted to tomorrow, as the
\* datetime anchor is.
MaxDateNextDay(q, is_datetime, date_now, diff_hour) ==
    IF is_datetime
    THEN IF q.validation_max_datetime_option # ""
         THEN IF q.validation_max_datetime_option = "today"
              THEN Some(Datetime(date_now + 1, -diff_hour)
                        - NbSecondDelay(q, is_datetime))
              ELSE None
         ELSE q.validation_max_datetime
    ELSE IF q.validation_max_date_option # ""
         THEN IF q.validation_max_date_option = "today"
              THEN Some(date_now + 1)
              ELSE None
         ELSE q.validation_max_date

MaxDate(q, is_datetime, date_now, diff_hour) ==
    IF is_datetime
    THEN IF q.validation_max_datetime_option # ""
         THEN IF q.validation_max_datetime_option = "today"
              THEN Some(Datetime(date_now + 1, -diff_hour)
                        - NbSecondDelay(q, is_datetime))
              ELSE None
         ELSE q.validation_max_datetime
    ELSE IF q.validation_max_date_option # ""
         THEN IF q.validation_max_date_option = "today"
              THEN Some(date_now)
              ELSE None
         ELSE q.validation_max_date

BetweenDatesTemplate ==
    "The date needs to be between %(date_min_show)s and %(date_max_show)s."
AfterDateTemplate == "The date needs to be after %(date_min_show)s."
BeforeDateTemplate == "The date needs to be before %(date_max_show)s."

DateMinShow(min_date, is_datetime, tz) ==
    IF ~is_datetime THEN Val(min_date) - 1 ELSE ToUserTz(Val(min_date), tz)

\* the range branch adds nb_second_delay back
DateMaxShowRange(max_date, is_datetime, tz, nb_second_delay) ==
    IF ~is_datetime
    THEN Val(max_date) + 1
    ELSE ToUserTz(Val(max_date) + nb_second_delay, tz)

\* the above-max branch adds relativedelta(seconds=1)
DateMaxShowBefore(max_date, is_datetime, tz) ==
    IF ~is_datetime
    THEN Val(max_date) + 1
    ELSE ToUserTz(Val(max_date) + 1, tz)

Validation(q, tz, is_datetime, dateanswer, min_date, max_date, nb_second_delay) ==
    IF /\ Truthy(min_date)
       /\ Truthy(max_date)
       /\ ~(Val(min_date) <= dateanswer /\ dateanswer <= Val(max_date))
    THEN Return({<<q.id,
            OrMsg(q.validation_error_msg,
                  Msg(BetweenDatesTemplate,
                      << DateMinShow(min_date, is_datetime, tz),
                         DateMaxShowRange(max_date, is_datetime, tz,
                                          nb_second_delay) >>))>>})
    ELSE IF Truthy(min_date) /\ ~(Val(min_date) <= dateanswer)
    THEN Return({<<q.id,
            OrMsg(q.validation_error_msg,
                  Msg(AfterDateTemplate,
                      << DateMinShow(min_date, is_datetime, tz) >>))>>})
    ELSE IF Truthy(max_date) /\ ~(dateanswer <= Val(max_date))
    THEN Return({<<q.id,
            OrMsg(q.validation_error_msg,
                  Msg(BeforeDateTemplate,
                      << DateMaxShowBefore(max_date, is_datetime, tz) >>))>>})
    ELSE Return({})

validate_date(q, tz, now, answer) ==
    LET is_datetime == q.question_type = "datetime"
    IN  IF ~Parses(answer)
        THEN NotADate(q)
        ELSE IF ~q.validation_required
        THEN Return({})
        ELSE
          LET dateanswer == IF is_datetime
                            THEN DatetimeFromString(answer)
                            ELSE DateFromString(answer)
              date_now == DateNow(tz, now)
              diff_hour == DiffHour(tz)
          IN  IF MaxDateRaises(q, is_datetime, diff_hour)
              THEN Raise("ValueError")
              ELSE Validation(q, tz, is_datetime, dateanswer,
                              MinDate(q, is_datetime, date_now, diff_hour),
                              MaxDate(q, is_datetime, date_now, diff_hour),
                              NbSecondDelay(q, is_datetime))

----------------------------------------------------------------------------
\* The records and inputs explored.

ErrorMsgs == {"", "Invalid answer"}
Anchors == {"", "today", "tomorrow"}

Ids(n) == [i \in 1..n |-> i]

BaseQuestion ==
    [ id |-> 1,
      question_type |-> "multiple_choice",
      validation_required |-> FALSE,
      validation_error_msg |-> "",
      validation_min_multiple_choice_option |-> -1,
      validation_max_multiple_choice_option |-> -1,
      suggested_answer_ids |-> <<>>,
      validation_min_datetime_option |-> "",
      validation_max_datetime_option |-> "",
      validation_min_date_option |-> "",
      validation_max_date_option |-> "",
      validation_min_date |-> None,
      validation_max_date |-> None,
      validation_min_datetime |-> None,
      validation_max_datetime |-> None ]

ChoiceQuestions ==
    { [BaseQuestion EXCEPT
         !.id = i, !.question_type = t, !.validation_required = vr,
         !.validation_error_msg = m,
         !.validation_min_multiple_choice_option = lo,
         !.validation_max_multiple_choice_option = hi,
         !.suggested_answer_ids = Ids(n)] :
      i \in 1..MaxQuestionId, t \in {"multiple_choice", "simple_choice"},
      vr \in BOOLEAN, m \in ErrorMsgs,
      lo \in ChoiceOptions, hi \in ChoiceOptions, n \in 0..MaxSuggested }

MinDates == {None, Some(100)}
MaxDates == {None, Some(101)}
MinDatetimes == {None, Some(100 * SecondsPerDay + 12 * SecondsPerHour)}
MaxDatetimes == {None, Some(101 * SecondsPerDay + 12 * SecondsPerHour)}

DateQuestions ==
    { [BaseQuestion EXCEPT
         !.id = i, !.question_type = "date", !.validation_required = vr,
         !.validation_error_msg = m,
         !.validation_min_date_option = lo, !.validation_max_date_option = hi,
         !.validation_min_date = dlo, !.validation_max_date = dhi] :
      i \in 1..MaxQuestionId, vr \in BOOLEAN, m \in ErrorMsgs,
      lo \in Anchors, hi \in Anchors, dlo \in MinDates, dhi \in MaxDates }

DatetimeQuestions ==
    { [BaseQuestion EXCEPT
         !.id = i, !.question_type = "datetime", !.validation_required = vr,
         !.validation_error_msg = m,
         !.validation_min_datetime_option = lo,
         !.validation_max_datetime_option = hi,
         !.validation_min_datetime = dlo, !.validation_max_datetime = dhi] :
      i \in 1..MaxQuestionId, vr \in BOOLEAN, m \in ErrorMsgs,
      lo \in Anchors, hi \in Anchors,
      dlo \in MinDatetimes, dhi \in MaxDatetimes }

ChoiceAnswers ==
    { [type |-> "list", ids |-> Ids(n)] : n \in 0..MaxAnswerLen }
    \cup { [type |-> "str", ids |-> <<1>>] }

\* what super()._validate_choice returns: {} or the mandatory-question error
SuperResults(q) == { {}, {<<q.id, Text("This question requires an answer.")>>} }

Garbage == [fmt |-> "garbage", val |-> 0]
DateTexts == { [fmt |-> "date", val |-> d] : d \in Days }

\* Local midnight of each day in each timezone, and the second before it.
DatetimeTexts ==
    { [fmt |-> "datetime", val |-> d * SecondsPerDay - tz - e] :
      d \in Days \ {99}, tz \in TzOffsets, e \in {0, 1} }

DateAnswers(q) ==
    IF q.question_type = "datetime"
    THEN DatetimeTexts \cup {[fmt |-> "date", val |-> 101], Garbage}
    ELSE DateTexts
         \cup {[fmt |-> "datetime", val |-> 100 * SecondsPerDay + 1], Garbage}

NoCall == [method |-> "", answer |-> <<>>, res |-> {}]

----------------------------------------------------------------------------
Init ==
    /\ \/ /\ question \in ChoiceQuestions
          /\ user_tz = 0
          /\ time_now = 100 * SecondsPerDay
       \/ /\ question \in DateQuestions \cup DatetimeQuestions
          /\ user_tz \in TzOffsets
          /\ time_now \in NowInstants
    /\ call = NoCall
    /\ result = NoResult

\* The recomputation of validation_required when question_type is written.
ComputeValidationRequired ==
    /\ question' = compute_validation_required(question)
    /\ call' = [NoCall EXCEPT !.method = "_compute_validation_required"]
    /\ result' = NoResult
    /\ UNCHANGED <<user_tz, time_now>>

\* validate_question dispatches simple_choice and multiple_choice questions
\* to _validate_choice.
ValidateChoice ==
    /\ question.question_type \in {"simple_choice", "multiple_choice"}
    /\ \E answer \in ChoiceAnswers, res \in SuperResults(question) :
         /\ call' = [method |-> "_validate_choice", answer |-> answer, res |-> res]
         /\ result' = validate_choice(question, answer, res)
    /\ UNCHANGED <<question, user_tz, time_now>>

\* validate_question dispatches date and datetime questions with a
\* non-empty answer to _validate_date.
ValidateDate ==
    /\ question.question_type \in {"date", "datetime"}
    /\ \E answer \in DateAnswers(question) :
         /\ call' = [method |-> "_validate_date", answer |-> answer, res |-> {}]
         /\ result' = validate_date(question, user_tz, time_now, answer)
    /\ UNCHANGED <<question, user_tz, time_now>>

Next == ComputeValidationRequired \/ ValidateChoice \/ ValidateDate

Spec == Init /\ [][Next]_vars

----------------------------------------------------------------------------
\* Properties.

ChoiceCalled == call.method = "_validate_choice"
DateCalled == call.method = "_validate_date"

\* _validate_choice ran its own check: a multiple-choice question with
\* validation enabled, and the generic check found no error.
ChoiceChecked ==
    /\ ChoiceCalled
    /\ question.question_type = "multiple_choice"
    /\ question.validation_required
    /\ call.res = {}

\* The count of an answer as the specification defines it.
CountOf(answer) == IF answer.type = "list" THEN Len(answer.ids) ELSE 1

Valid == [exc |-> "", ret |-> {}]
Invalid(r) == r.exc = "" /\ \E m \in {p[2] : p \in r.ret} : r.ret = {<<question.id, m>>}
MessageOf(r) == (CHOOSE p \in r.ret : TRUE)[2]

\* C1: for a multiple-choice question with validation enabled and no error
\* from the generic check, _validate_choice returns the empty result iff
\* min_value <= count <= max_value, count being the length of a list answer
\* and 1 for a scalar; also when min_value > max_value (nothing is valid).
C1_ValidIffCountWithinBounds ==
    ChoiceChecked =>
        /\ result.exc = ""
        /\ (result = Valid <=>
              (MinValue(question) <= CountOf(call.answer)
               /\ CountOf(call.answer) <= MaxValue(question)))
        /\ (MinValue(question) > MaxValue(question) => result # Valid)

C1_Witness ==
    /\ ChoiceChecked
    /\ call.answer.type = "list"
    /\ CountOf(call.answer) = 3
    /\ MinValue(question) = 1
    /\ MaxValue(question) = 3
    /\ result = Valid

\* The effective bounds as the specification resolves them.
EffectiveMin(q) ==
    IF q.validation_min_multiple_choice_option >= 0
    THEN q.validation_min_multiple_choice_option
    ELSE 0
EffectiveMax(q) ==
    IF q.validation_max_multiple_choice_option >= 0
    THEN q.validation_max_multiple_choice_option
    ELSE Len(q.suggested_answer_ids)

\* C2: for every configured bound, negative values other than -1 included,
\* the effective minimum is the configured one when >= 0 and 0 otherwise,
\* the effective maximum the configured one when >= 0 and the number of
\* suggested answers otherwise; so an answer whose count lies between the
\* effective minimum and the number of suggested answers is not rejected
\* because of a negative configured maximum.
C2_NegativeBoundsAreDisabled ==
    ChoiceChecked =>
        /\ MinValue(question) = EffectiveMin(question)
        /\ MaxValue(question) = EffectiveMax(question)
        /\ (/\ question.validation_max_multiple_choice_option < 0
            /\ EffectiveMin(question) <= CountOf(call.answer)
            /\ CountOf(call.answer) <= Len(question.suggested_answer_ids)
            => result = Valid)

\* The configuration of C3: both bounds disabled, five suggested answers,
\* the empty list as the answer.
C3_Case ==
    /\ ChoiceCalled
    /\ question.question_type = "multiple_choice"
    /\ question.validation_required
    /\ question.validation_min_multiple_choice_option = -1
    /\ question.validation_max_multiple_choice_option = -1
    /\ Len(question.suggested_answer_ids) = 5
    /\ call.answer = [type |-> "list", ids |-> <<>>]

\* C3 as stated: in that configuration the result is invalid, with the
\* "between 0 and 5" message reporting a chosen count of 0.
C3_EmptyAnswerRejected ==
    C3_Case =>
        /\ Invalid(result)
        /\ (question.validation_error_msg = "" /\ call.res = {}
            => MessageOf(result) = Msg(BetweenTemplate, <<0, 5, 0>>))

\* C3, amended: in that configuration _validate_choice returns the generic
\* check's result unchanged, the empty (valid) result when that check found
\* no error, since 0 <= 0 <= 5.
C3_EmptyAnswerAccepted ==
    C3_Case =>
        /\ result = [exc |-> "", ret |-> call.res]
        /\ (call.res = {} => result = Valid)

C3_Witness == C3_Case /\ call.res = {} /\ result = Valid

DateChecked ==
    /\ DateCalled
    /\ question.question_type \in {"date", "datetime"}
    /\ question.validation_required
    /\ call.answer.fmt # "garbage"

\* C4: _validate_date never raises: with a parseable answer and validation
\* enabled, for every kind, anchor, explicit bound and timezone, it returns
\* the empty result or a one-entry mapping keyed by the question id.
C4_NoCrashPath ==
    DateChecked => result.exc = "" /\ (result = Valid \/ Invalid(result))

\* Today's date in the user's timezone, and the UTC second of its midnight.
Today == (time_now + user_tz) \div SecondsPerDay
LocalMidnight == Today * SecondsPerDay - user_tz

C5_Case ==
    /\ DateChecked
    /\ question.question_type = "datetime"
    /\ call.answer.fmt = "datetime"
    /\ question.validation_min_datetime_option = "today"
    /\ question.validation_max_datetime_option = ""
    /\ question.validation_max_datetime = None

\* C5: for a datetime question with minimum anchor "today" and no maximum,
\* in every timezone (also those that are not a whole number of hours from
\* UTC) the minimum is the UTC instant of local midnight: the second before
\* it is rejected with the below-minimum error, local midnight is accepted.
C5_MinimumIsLocalMidnight ==
    C5_Case =>
        /\ call.answer.val = LocalMidnight - 1 =>
             /\ Invalid(result)
             /\ MessageOf(result) =
                  OrMsg(question.validation_error_msg,
                        Msg(AfterDateTemplate, <<Today * SecondsPerDay>>))
        /\ call.answer.val = LocalMidnight => result = Valid

\* Companion of C5: the same statement for the timezones a whole number of
\* hours from UTC, where int() truncates nothing.
C5_WholeHourOffsets ==
    user_tz % SecondsPerHour = 0 => C5_MinimumIsLocalMidnight

\* C6: for a date or datetime question, an answer that does not parse
\* yields exactly {id: "This is not a date"}, whether or not validation is
\* enabled, whatever the bounds and anchors, and also when a custom error
\* message is configured.
C6_ParseFailure ==
    (DateCalled /\ call.answer.fmt = "garbage") =>
        result = [exc |-> "",
                  ret |-> {<<question.id,
                             [template |-> "This is not a date", args |-> <<>>]>>}]

C6_Witness ==
    /\ DateCalled
    /\ call.answer.fmt = "garbage"
    /\ question.validation_required
    /\ question.validation_error_msg # ""
    /\ question.validation_min_date_option = "today"
    /\ result.ret = {<<question.id, Text("This is not a date")>>}

\* The anchors and explicit bounds of the question's kind.
MinAnchor == IF question.question_type = "datetime"
             THEN question.validation_min_datetime_option
             ELSE question.validation_min_date_option
MaxAnchor == IF question.question_type = "datetime"
             THEN question.validation_max_datetime_option
             ELSE question.validation_max_date_option
MinExplicit == IF question.question_type = "datetime"
               THEN question.validation_min_datetime
               ELSE question.validation_min_date
MaxExplicit == IF question.question_type = "datetime"
               THEN question.validation_max_datetime
               ELSE question.validation_max_date

Unknown(anchor) == anchor \notin {"", "today"}

\* The answer as the question's kind reads it.
AnswerValue == IF question.question_type = "datetime"
               THEN DatetimeFromString(call.answer)
               ELSE DateFromString(call.answer)

\* The bounds of a date question as the specification resolves them: the
\* anchor first ("today" is today's date in the user's timezone, an unknown
\* anchor is no bound), else the explicit bound.
ResolvedMin ==
    IF MinAnchor = "today" THEN Some(Today)
    ELSE IF MinAnchor = "" THEN MinExplicit ELSE None
ResolvedMax ==
    IF MaxAnchor = "today" THEN Some(Today)
    ELSE IF MaxAnchor = "" THEN MaxExplicit ELSE None

\* The bound _validate_date resolved for each side.
IsDatetime == question.question_type = "datetime"
MinBound == MinDate(question, IsDatetime, DateNow(user_tz, time_now), DiffHour(user_tz))
MaxBound == MaxDate(question, IsDatetime, DateNow(user_tz, time_now), DiffHour(user_tz))

AboveMin == MinBound = None \/ Val(MinBound) <= AnswerValue
BelowMax == MaxBound = None \/ AnswerValue <= Val(MaxBound)

\* C7: with validation enabled, a side whose anchor is set to anything but
\* "today" has no bound, even if an explicit bound is configured for it; no
\* exception is raised, and the result is decided by the other side alone:
\* valid iff that bound is absent or satisfied.
C7_UnknownAnchorIsAbsentBound ==
    /\ (DateChecked /\ Unknown(MinAnchor)) =>
          result.exc = "" /\ (result = Valid <=> BelowMax) /\ (result # Valid => Invalid(result))
    /\ (DateChecked /\ Unknown(MaxAnchor)) =>
          result.exc = "" /\ (result = Valid <=> AboveMin) /\ (result # Valid => Invalid(result))

\* Companion of C7: the same statement outside the one case where resolving
\* the other side raises (the datetime maximum anchor "today" east of UTC).
C7_UnlessMaxAnchorRaises ==
    (question.question_type = "datetime" /\ MaxAnchor = "today" /\ user_tz > 0)
    \/ C7_UnknownAnchorIsAbsentBound

\* C8: for a date question with validation enabled the answer is compared
\* inclusively with the resolved bounds ("today" is today's date in the
\* user's timezone, unshifted): both bounds present, a range error iff the
\* answer is outside [min, max]; only min, a below-min error iff answer <
\* min; only max, an above-max error iff answer > max; otherwise valid.
C8_DateComparison ==
    (DateChecked /\ question.question_type = "date") =>
        LET a == AnswerValue
            lo == ResolvedMin
            hi == ResolvedMax
            expected ==
                IF lo # None /\ hi # None
                THEN IF Val(lo) <= a /\ a <= Val(hi)
                     THEN "" ELSE BetweenDatesTemplate
                ELSE IF lo # None
                THEN IF a < Val(lo) THEN AfterDateTemplate ELSE ""
                ELSE IF hi # None
                THEN IF a > Val(hi) THEN BeforeDateTemplate ELSE ""
                ELSE ""
        IN  /\ result.exc = ""
            /\ (expected = "" <=> result = Valid)
            /\ expected # "" =>
                 /\ Invalid(result)
                 /\ MessageOf(result).template =
                      (IF question.validation_error_msg # ""
                       THEN question.validation_error_msg
                       ELSE expected)

C8_Witness ==
    /\ DateChecked
    /\ question.question_type = "date"
    /\ call.answer.fmt = "date"
    /\ question.validation_min_date_option = "today"
    /\ question.validation_max_date_option = "today"
    /\ user_tz > 0
    /\ call.answer.val = Today
    /\ result = Valid

\* The other half of C8's example: with both anchors "today", tomorrow's
\* date is rejected.
C8_Witness_Rejected ==
    /\ DateChecked
    /\ question.question_type = "date"
    /\ question.validation_min_date_option = "today"
    /\ question.validation_max_date_option = "today"
    /\ call.answer = [fmt |-> "date", val |-> Today + 1]
    /\ Invalid(result)

\* C9: when _validate_choice rejects an answer, the result is a one-entry
\* mapping keyed by the question id; its message is the custom error
\* message when one is configured, else the exact-count message (min_value
\* and the count) iff min_value = max_value, else the between message
\* (min_value, max_value and the count).
C9_ChoiceMessage ==
    (ChoiceChecked /\ result # Valid) =>
        LET lo == MinValue(question)
            hi == MaxValue(question)
            n == CountOf(call.answer)
        IN  /\ Invalid(result)
            /\ MessageOf(result) =
                 IF question.validation_error_msg # ""
                 THEN [template |-> question.validation_error_msg, args |-> <<>>]
                 ELSE IF lo = hi
                 THEN [template |-> ExactTemplate, args |-> <<lo, n>>]
                 ELSE [template |-> BetweenTemplate, args |-> <<lo, hi, n>>]

C9_Witness ==
    /\ ChoiceChecked
    /\ question.validation_min_multiple_choice_option = 2
    /\ question.validation_max_multiple_choice_option = 2
    /\ question.validation_error_msg = ""
    /\ call.answer = [type |-> "list", ids |-> <<1>>]
    /\ result.ret = {<<question.id, Msg(ExactTemplate, <<2, 1>>)>>}

\* C10: for a datetime answer rejected against a maximum with the generated
\* message, the maximum shown is the comparison bound plus the delay that
\* was subtracted when the bound was resolved: 1 second for the "today"
\* anchor, 0 for an explicit maximum; in the range-error branch and in the
\* above-max branch.
C10_ShownMaxAddsBackDelay ==
    (/\ DateChecked
     /\ question.question_type = "datetime"
     /\ question.validation_error_msg = ""
     /\ result.exc = ""
     /\ result # Valid
     /\ MessageOf(result).template \in {BetweenDatesTemplate, BeforeDateTemplate}) =>
        LET shown == MessageOf(result).args[Len(MessageOf(result).args)]
            bound == Val(MaxBound)
            delay == IF MaxAnchor = "today" THEN 1 ELSE 0
        IN  shown = bound + delay + user_tz

\* Companion of C10: the same statement for the range-error branch alone,
\* which adds nb_second_delay back.
C10_RangeBranch ==
    (DateChecked /\ result.exc = "" /\ result # Valid
     /\ MessageOf(result).template = BeforeDateTemplate)
    \/ C10_ShownMaxAddsBackDelay

====
